---- MODULE Spec2Model ----
(***************************************************************************)
(* Model of the layered user-management example                            *)
(* (src/cpp/user_example/user_good_example.cpp): the User record, the      *)
(* in-memory repository, the validator, the presenter and the UserService  *)
(* that orchestrates them.  Strings are sequences of one-character         *)
(* strings, so that std::string::find, concatenation and the JSON          *)
(* rendering are computed character by character.                          *)
(***************************************************************************)
EXTENDS Integers, Sequences, FiniteSets, TLC

\* ------------------------------------------------------------------ bounds
MaxNameLen == 1

\* ------------------------------------------------------------------ inputs
NameChars == {"a", "\""}

RECURSIVE StringsUpTo(_, _)
StringsUpTo(chars, n) ==
    IF n = 0 THEN {<<>>}
    ELSE LET shorter == StringsUpTo(chars, n - 1)
         IN  shorter \cup {Append(s, c) : s \in shorter, c \in chars}

Names == StringsUpTo(NameChars, MaxNameLen)

Ids == {<<"u", "1">>, <<"u", "2">>}

Emails == { <<"a">>,
            <<"a", "@", "b">>,
            <<"a", ".", "b">>,
            <<"a", ".", "b", "@", "c">>,
            <<"a", "@", "b", ".", "c">> }

Formats == {"console", "json", "xml"}

\* ------------------------------------------------------------------ User
User(id, name, email, isActive) ==
    [id |-> id, name |-> name, email |-> email, isActive |-> isActive]

\* ------------------------------------------------------- std::string::find
npos == 0

Find(s, c) ==
    IF \E i \in 1..Len(s) : s[i] = c
    THEN CHOOSE i \in 1..Len(s) : s[i] = c /\ \A j \in 1..(i - 1) : s[j] # c
    ELSE npos

\* ------------------------------------------------------------ Repository
EmptyMap == [i \in {} |-> User(<<>>, <<>>, <<>>, TRUE)]

\* mutant: the map is reassigned to hold the saved record alone
save_Replace(users, user) ==
    [i \in {user.id} |-> user]

\* mutant: std::map::insert semantics, an existing record is kept
save_NoOverwrite(users, user) ==
    [i \in (DOMAIN users) \cup {user.id} |->
        IF i \in DOMAIN users THEN users[i] ELSE user]

\* users[user.id] = user: insert or overwrite
save(users, user) ==
    [i \in (DOMAIN users) \cup {user.id} |->
        IF i = user.id THEN user ELSE users[i]]

\* a pointer to the stored record, or nullptr: a sequence of length 0 or 1
findById(users, userId) ==
    IF userId \in DOMAIN users THEN <<users[userId]>> ELSE <<>>

\* ------------------------------------------------------------- Validator
validate(user) ==
    IF user.name = <<>> THEN "name_blank"
    ELSE IF Find(user.email, "@") = npos \/ Find(user.email, ".") = npos
         THEN "invalid_email"
         ELSE "ok"

\* ------------------------------------------------------------- Presenter
formatForConsole(user) ==
    <<"U","s","e","r"," ","I","D",":"," ">> \o user.id
    \o <<"\n","N","a","m","e",":"," ">> \o user.name
    \o <<"\n","E","m","a","i","l",":"," ">> \o user.email
    \o <<"\n","S","t","a","t","u","s",":"," ">>
    \o (IF user.isActive THEN <<"A","c","t","i","v","e">>
                         ELSE <<"I","n","a","c","t","i","v","e">>)

formatForJson(user) ==
    <<"{","\"","i","d","\"",":","\"">> \o user.id
    \o <<"\"",","," ","\"","n","a","m","e","\"",":","\"">> \o user.name
    \o <<"\"",","," ","\"","e","m","a","i","l","\"",":","\"">> \o user.email
    \o <<"\"",","," ","\"","a","c","t","i","v","e","\"",":">>
    \o (IF user.isActive THEN <<"t","r","u","e">>
                         ELSE <<"f","a","l","s","e">>)
    \o <<"}">>

\* ----------------------------------------------------------- UserService
\* The result of one call: the repository after it, how it ended, what it
\* returned and the arguments of the Repository.save calls it made.
Result(users, outcome, retUser, retStr, saved) ==
    [users |-> users, outcome |-> outcome, retUser |-> retUser,
     retStr |-> retStr, saved |-> saved]

\* mutant: the new User is built inactive
createUser_Inactive(users, id, name, email) ==
    LET newUser == User(id, name, email, FALSE)
        verdict == validate(newUser)
    IN  IF verdict # "ok"
        THEN Result(users, verdict, <<>>, <<>>, <<>>)
        ELSE LET stored == save(users, newUser)
             IN  Result(stored, "ok", <<stored[id]>>, <<>>, <<newUser>>)

\* mutant: the validator's exception is swallowed and the user saved anyway
createUser_IgnoreVerdict(users, id, name, email) ==
    LET newUser == User(id, name, email, TRUE)
        stored  == save(users, newUser)
    IN  Result(stored, "ok", <<stored[id]>>, <<>>, <<newUser>>)

\* mutant: the user is saved before it is validated
createUser_SaveFirst(users, id, name, email) ==
    LET newUser == User(id, name, email, TRUE)
        stored  == save(users, newUser)
        verdict == validate(newUser)
    IN  IF verdict # "ok"
        THEN Result(stored, verdict, <<>>, <<>>, <<newUser>>)
        ELSE Result(stored, "ok", <<stored[id]>>, <<>>, <<newUser>>)

createUser(users, id, name, email) ==
    LET newUser == User(id, name, email, TRUE)
        verdict == validate(newUser)
    IN  IF verdict # "ok"
        THEN Result(users, verdict, <<>>, <<>>, <<>>)
        ELSE LET stored == save(users, newUser)
             IN  Result(stored, "ok", <<stored[id]>>, <<>>, <<newUser>>)

\* mutant: the format is checked before the lookup
getFormattedUserDetails_FormatFirst(users, userId, format) ==
    LET user == findById(users, userId)
    IN  IF format # "console" /\ format # "json"
        THEN Result(users, "unsupported_format", <<>>, <<>>, <<>>)
        ELSE IF user = <<>>
        THEN Result(users, "not_found", <<>>, <<>>, <<>>)
        ELSE IF format = "console"
        THEN Result(users, "ok", <<>>, formatForConsole(user[1]), <<>>)
        ELSE Result(users, "ok", <<>>, formatForJson(user[1]), <<>>)

getFormattedUserDetails(users, userId, format) ==
    LET user == findById(users, userId)
    IN  IF user = <<>>
        THEN Result(users, "not_found", <<>>, <<>>, <<>>)
        ELSE IF format = "console"
        THEN Result(users, "ok", <<>>, formatForConsole(user[1]), <<>>)
        ELSE IF format = "json"
        THEN Result(users, "ok", <<>>, formatForJson(user[1]), <<>>)
        ELSE Result(users, "unsupported_format", <<>>, <<>>, <<>>)

\* mutant: users[userId] instead of find, a missing record is default-inserted
activateUser_Insert(users, userId) ==
    LET user    == IF userId \in DOMAIN users THEN users[userId]
                   ELSE User(<<>>, <<>>, <<>>, TRUE)
        active  == [user EXCEPT !.isActive = TRUE]
        mutated == [i \in (DOMAIN users) \cup {userId} |->
                       IF i = userId THEN active ELSE users[i]]
    IN  Result(mutated, "ok", <<active>>, <<>>, <<active>>)

\* mutant: a fresh User is built from the id instead of updating the stored one
activateUser_FreshUser(users, userId) ==
    LET user == findById(users, userId)
    IN  IF user = <<>>
        THEN Result(users, "not_found", <<>>, <<>>, <<>>)
        ELSE LET active == User(userId, <<>>, <<>>, TRUE)
                 stored == save(users, active)
             IN  Result(stored, "ok", <<stored[active.id]>>, <<>>, <<active>>)

\* mutant: the flag is toggled instead of set
activateUser_Toggle(users, userId) ==
    LET user == findById(users, userId)
    IN  IF user = <<>>
        THEN Result(users, "not_found", <<>>, <<>>, <<>>)
        ELSE LET active  == [user[1] EXCEPT !.isActive = ~user[1].isActive]
                 mutated == [users EXCEPT ![userId] = active]
                 stored  == save(mutated, active)
             IN  Result(stored, "ok", <<stored[active.id]>>, <<>>, <<active>>)

activateUser(users, userId) ==
    LET user == findById(users, userId)
    IN  IF user = <<>>
        THEN Result(users, "not_found", <<>>, <<>>, <<>>)
        ELSE LET active  == [user[1] EXCEPT !.isActive = TRUE]
                 mutated == [users EXCEPT ![userId] = active]
                 stored  == save(mutated, active)
             IN  Result(stored, "ok", <<stored[active.id]>>, <<>>, <<active>>)

\* ------------------------------------------------------------------ state
VARIABLES users, lastOp

vars == <<users, lastOp>>

Call(op, id, name, email, format, before, r) ==
    [op |-> op, id |-> id, name |-> name, email |-> email, format |-> format,
     before |-> before, outcome |-> r.outcome, retUser |-> r.retUser,
     retStr |-> r.retStr, saved |-> r.saved]

Init ==
    /\ users = EmptyMap
    /\ lastOp = Call("init", <<>>, <<>>, <<>>, "", EmptyMap,
                     Result(EmptyMap, "ok", <<>>, <<>>, <<>>))

CreateUser ==
    \E id \in Ids, name \in Names, email \in Emails :
        LET r == createUser(users, id, name, email)
        IN  /\ users' = r.users
            /\ lastOp' = Call("createUser", id, name, email, "", users, r)

GetFormattedUserDetails ==
    \E id \in Ids, format \in Formats :
        LET r == getFormattedUserDetails(users, id, format)
        IN  /\ users' = r.users
            /\ lastOp' = Call("getFormattedUserDetails", id, <<>>, <<>>,
                              format, users, r)

ActivateUser ==
    \E id \in Ids :
        LET r == activateUser(users, id)
        IN  /\ users' = r.users
            /\ lastOp' = Call("activateUser", id, <<>>, <<>>, "", users, r)

Next == CreateUser \/ GetFormattedUserDetails \/ ActivateUser

Spec == Init /\ [][Next]_vars

TypeOK ==
    /\ DOMAIN users \subseteq Ids
    /\ \A i \in DOMAIN users : users[i].id = i

\* ------------------------------------------------- the documented rules
\* "email contains @ and contains . after the @"
EmailHasDotAfterAt(email) ==
    \E i \in 1..Len(email) :
        email[i] = "@" /\ \E j \in (i + 1)..Len(email) : email[j] = "."

DocumentedVerdict(name, email) ==
    IF name = <<>> THEN "name_blank"
    ELSE IF ~EmailHasDotAfterAt(email) THEN "invalid_email"
    ELSE "ok"

Rejections == {"name_blank", "invalid_email"}

\* ------------------------------------------------------ reading JSON back
\* A reader of JSON objects whose values are strings or boolean literals.
\* A read position past the end of the text reads as the empty character.
CharAt(s, i) == IF i >= 1 /\ i <= Len(s) THEN s[i] ELSE ""

Whitespace == {" ", "\n", "\t", "\r"}

SimpleEscapes == {"\"", "\\", "/"}

ParseFail == [ok |-> FALSE, str |-> <<>>, bool |-> FALSE, isStr |-> FALSE,
              next |-> 0]

RECURSIVE SkipWs(_, _)
SkipWs(s, i) == IF CharAt(s, i) \in Whitespace THEN SkipWs(s, i + 1) ELSE i

\* the characters after an opening quote, up to the closing quote
RECURSIVE ParseStringBody(_, _, _)
ParseStringBody(s, i, acc) ==
    IF i > Len(s) THEN ParseFail
    ELSE IF s[i] = "\""
    THEN [ok |-> TRUE, str |-> acc, bool |-> FALSE, isStr |-> TRUE,
          next |-> i + 1]
    ELSE IF s[i] = "\\"
    THEN IF CharAt(s, i + 1) \in SimpleEscapes
         THEN ParseStringBody(s, i + 2, Append(acc, s[i + 1]))
         ELSE ParseFail
    ELSE IF s[i] \in {"\n", "\t", "\r"} THEN ParseFail
    ELSE ParseStringBody(s, i + 1, Append(acc, s[i]))

ParseString(s, i) ==
    IF CharAt(s, i) = "\"" THEN ParseStringBody(s, i + 1, <<>>) ELSE ParseFail

StartsWithAt(s, i, lit) ==
    /\ i + Len(lit) - 1 <= Len(s)
    /\ \A k \in 1..Len(lit) : s[i + k - 1] = lit[k]

ParseValue(s, i) ==
    IF CharAt(s, i) = "\"" THEN ParseString(s, i)
    ELSE IF StartsWithAt(s, i, <<"t","r","u","e">>)
    THEN [ok |-> TRUE, str |-> <<>>, bool |-> TRUE, isStr |-> FALSE,
          next |-> i + 4]
    ELSE IF StartsWithAt(s, i, <<"f","a","l","s","e">>)
    THEN [ok |-> TRUE, str |-> <<>>, bool |-> FALSE, isStr |-> FALSE,
          next |-> i + 5]
    ELSE ParseFail

\* members of an object from position i on, up to the closing brace, which
\* must end the text; the result is the sequence of (key, value) members
RECURSIVE ParseMembers(_, _, _)
ParseMembers(s, i, acc) ==
    LET key == ParseString(s, i)
    IN  IF ~key.ok THEN [ok |-> FALSE, members |-> <<>>]
        ELSE
        LET colon == SkipWs(s, key.next)
        IN  IF CharAt(s, colon) # ":" THEN [ok |-> FALSE, members |-> <<>>]
            ELSE
            LET val == ParseValue(s, SkipWs(s, colon + 1))
            IN  IF ~val.ok THEN [ok |-> FALSE, members |-> <<>>]
                ELSE
                LET sep  == SkipWs(s, val.next)
                    more == Append(acc, [key |-> key.str, isStr |-> val.isStr,
                                         str |-> val.str, bool |-> val.bool])
                IN  IF CharAt(s, sep) = ","
                    THEN ParseMembers(s, SkipWs(s, sep + 1), more)
                    ELSE IF CharAt(s, sep) = "}"
                            /\ SkipWs(s, sep + 1) > Len(s)
                    THEN [ok |-> TRUE, members |-> more]
                    ELSE [ok |-> FALSE, members |-> <<>>]

ParseJsonObject(s) ==
    LET open == SkipWs(s, 1)
    IN  IF CharAt(s, open) # "{" THEN [ok |-> FALSE, members |-> <<>>]
        ELSE LET first == SkipWs(s, open + 1)
             IN  IF CharAt(s, first) = "}" /\ SkipWs(s, first + 1) > Len(s)
                 THEN [ok |-> TRUE, members |-> <<>>]
                 ELSE ParseMembers(s, first, <<>>)

\* the value of a key: the last member with that key, as a sequence of
\* length 0 (no such key) or 1
JsonGet(members, key) ==
    LET at == {k \in 1..Len(members) : members[k].key = key}
    IN  IF at = {} THEN <<>>
        ELSE <<members[CHOOSE k \in at : \A m \in at : m <= k]>>

JsonString(members, key, expected) ==
    LET v == JsonGet(members, key)
    IN  v # <<>> /\ v[1].isStr /\ v[1].str = expected

JsonBool(members, key, expected) ==
    LET v == JsonGet(members, key)
    IN  v # <<>> /\ ~v[1].isStr /\ v[1].bool = expected

JsonMatchesUser(text, user) ==
    LET parsed == ParseJsonObject(text)
    IN  /\ parsed.ok
        /\ JsonString(parsed.members, <<"i","d">>, user.id)
        /\ JsonString(parsed.members, <<"n","a","m","e">>, user.name)
        /\ JsonString(parsed.members, <<"e","m","a","i","l">>, user.email)
        /\ JsonBool(parsed.members, <<"a","c","t","i","v","e">>, user.isActive)

\* ------------------------------------------------------------------ claims
Created   == lastOp.op = "createUser"
Activated == lastOp.op = "activateUser"
Formatted == lastOp.op = "getFormattedUserDetails"

\* C1: every User held in the repository has a non-empty name and an email
\* with an '@' and a '.' after that '@'.
C1_StoredUsersPassDocumentedRules ==
    \A i \in DOMAIN users :
        /\ users[i].name # <<>>
        /\ EmailHasDotAfterAt(users[i].email)

\* C2: createUser with a non-empty name and an email with '@' then '.'
\* returns the active User with the given fields, and findById(id) right
\* after returns exactly that record, also when a record was overwritten.
C2_CreateValidStoresAndReturns ==
    (Created /\ DocumentedVerdict(lastOp.name, lastOp.email) = "ok")
    => /\ lastOp.outcome = "ok"
       /\ lastOp.retUser = <<User(lastOp.id, lastOp.name, lastOp.email, TRUE)>>
       /\ findById(users, lastOp.id)
            = <<User(lastOp.id, lastOp.name, lastOp.email, TRUE)>>

C2_Witness ==
    /\ Created
    /\ DocumentedVerdict(lastOp.name, lastOp.email) = "ok"
    /\ lastOp.id \in DOMAIN lastOp.before
    /\ lastOp.before[lastOp.id].name # lastOp.name
    /\ users[lastOp.id].name = lastOp.name

C4_RejectedCreateNeverSaves ==
    (Created /\ lastOp.outcome \in Rejections)
    => /\ lastOp.saved = <<>>
       /\ users = lastOp.before

C4_Witness ==
    /\ Created
    /\ lastOp.outcome = "invalid_email"
    /\ DOMAIN users = Ids
    /\ lastOp.saved = <<>>

\* C5: the verdict of validate follows the documented rules in order: the
\* name reason for an empty name, else the email reason unless the email has
\* an '@' and a '.' after it, else ok.
C5_VerdictFollowsDocumentedRules ==
    Created => lastOp.outcome = DocumentedVerdict(lastOp.name, lastOp.email)

\* C6: after a call saved u, findById(u.id) returns u, and a record changes
\* (or appears, or disappears) only in a step that saved under its id.
C6_SavedRecordStaysUntilNextSave ==
    /\ \A k \in 1..Len(lastOp.saved) :
           findById(users, lastOp.saved[k].id) = <<lastOp.saved[k]>>
    /\ \A i \in Ids :
           findById(users, i) # findById(lastOp.before, i)
           => \E k \in 1..Len(lastOp.saved) : lastOp.saved[k].id = i

C6_Witness ==
    /\ Created
    /\ lastOp.saved # <<>>
    /\ lastOp.id \in DOMAIN lastOp.before
    /\ users[lastOp.id] # lastOp.before[lastOp.id]
    /\ \E i \in DOMAIN users : i # lastOp.id

\* C7: activateUser on an id with no stored record returns not-found, saves
\* nothing and leaves the repository as it was.
C7_ActivateUnknownIsNotFound ==
    (Activated /\ lastOp.id \notin DOMAIN lastOp.before)
    => /\ lastOp.outcome = "not_found"
       /\ lastOp.retUser = <<>>
       /\ lastOp.saved = <<>>
       /\ users = lastOp.before

C7_Witness ==
    /\ Activated
    /\ lastOp.id \notin DOMAIN lastOp.before
    /\ lastOp.before # EmptyMap

\* C8: activateUser on a stored, already active user returns a User equal to
\* the stored record and leaves the repository unchanged; a second
\* activateUser(id) right after a first one gives the same result and the
\* same repository as the first.
C8_ActivateIsIdempotent ==
    /\ (Activated /\ lastOp.id \in DOMAIN lastOp.before
          /\ lastOp.before[lastOp.id].isActive)
       => /\ lastOp.outcome = "ok"
          /\ lastOp.retUser = <<lastOp.before[lastOp.id]>>
          /\ users = lastOp.before
    /\ \A id \in Ids :
          LET once  == activateUser(users, id)
              twice == activateUser(once.users, id)
          IN  /\ twice.users = once.users
              /\ twice.outcome = once.outcome
              /\ twice.retUser = once.retUser

C8_Witness ==
    /\ Activated
    /\ lastOp.outcome = "ok"
    /\ lastOp.before[lastOp.id].isActive
    /\ lastOp.retUser = <<users[lastOp.id]>>

\* C9: getFormattedUserDetails is not-found when no record is stored under
\* id, whatever the format; else unsupported-format when the format is
\* neither "console" nor "json"; else a rendered string.  The repository is
\* unchanged in all three cases.
C9_FormattedOutcomeKind ==
    Formatted
    => /\ users = lastOp.before
       /\ lastOp.saved = <<>>
       /\ IF lastOp.id \notin DOMAIN lastOp.before
          THEN lastOp.outcome = "not_found"
          ELSE IF lastOp.format \notin {"console", "json"}
          THEN lastOp.outcome = "unsupported_format"
          ELSE lastOp.outcome = "ok" /\ lastOp.retStr # <<>>

C9_Witness ==
    /\ Formatted
    /\ lastOp.id \notin DOMAIN lastOp.before
    /\ lastOp.format \notin {"console", "json"}
    /\ lastOp.outcome = "not_found"
    /\ lastOp.before # EmptyMap

\* C10: the text returned by getFormattedUserDetails(id, "json") reads back
\* as a JSON object whose id, name, email and active equal the stored
\* record's id, name, email and isActive.
C10_JsonReadsBackAsStoredRecord ==
    (Formatted /\ lastOp.format = "json" /\ lastOp.outcome = "ok")
    => JsonMatchesUser(lastOp.retStr, users[lastOp.id])

\* C11: activateUser on a stored id changes at most the isActive field of
\* the record under that id: its id, name and email stay, the set of stored
\* ids stays, and every record under another id is unchanged.  The same holds
\* when the stored record is inactive, as a direct Repository.save can leave
\* it.
ActivateFrame(before, id, after) ==
    /\ DOMAIN after = DOMAIN before
    /\ after[id].id = before[id].id
    /\ after[id].name = before[id].name
    /\ after[id].email = before[id].email
    /\ \A i \in DOMAIN before : i # id => after[i] = before[i]

C11_ActivateChangesOnlyIsActive ==
    /\ (Activated /\ lastOp.id \in DOMAIN lastOp.before)
       => ActivateFrame(lastOp.before, lastOp.id, users)
    /\ \A id \in DOMAIN users :
          LET inactive == [users EXCEPT ![id].isActive = FALSE]
              r        == activateUser(inactive, id)
          IN  /\ ActivateFrame(inactive, id, r.users)
              /\ r.users[id].isActive

C11_Witness ==
    /\ Activated
    /\ lastOp.id \in DOMAIN lastOp.before
    /\ lastOp.outcome = "ok"
    /\ DOMAIN users = Ids
    /\ users[lastOp.id].name # <<>>

\* C12: no call removes a record: every id under which findById finds a
\* record before a step is one under which it finds a record after the step,
\* so an id once found is found in every later state, failed calls included.
C12_RecordsNeverRemoved ==
    [][\A i \in Ids : findById(users, i) # <<>> => findById(users', i) # <<>>]_vars

C12_Witness ==
    /\ Created
    /\ lastOp.outcome \in Rejections
    /\ DOMAIN lastOp.before = Ids
    /\ DOMAIN users = Ids
====
